---- MODULE Spec2Model ----
(***************************************************************************)
(* Model of exchange/utils.go of prebid-server: the fan-out of one auction *)
(* request into per-bidder requests (getAuctionBidderRequests and the      *)
(* helpers it calls) and the resolution of the privacy "enabled" flags.    *)
(*                                                                         *)
(* JSON documents are modelled by their decoded content.  A bidder's       *)
(* parameter payload, a buyer identifier and a supply chain each carry     *)
(* their origin, so that "bidder A's request holds bidder B's value" is a  *)
(* question about values and not about text.                               *)
(***************************************************************************)
EXTENDS Integers, Sequences, FiniteSets, TLC

VARIABLES
    imps,               \* req.BidRequest.Imp: the inbound impressions
    user,               \* the object req.BidRequest.User points to (mutable)
    source,             \* the object req.BidRequest.Source points to (mutable)
    ext,                \* req.Ext, the parsed request extension
    rawExtEmpty,        \* len(req.BidRequest.Ext) == 0
    aliases,            \* req.Aliases
    syncs,              \* req.UserSyncs: canonical bidders with a synced id
    app,                \* req.BidRequest.App != nil
    pc,                 \* position inside getAuctionBidderRequests
    impsByBidder,       \* result of splitImps
    explicitBuyerUIDs,  \* result of extractBuyerUIDs
    sChainsByBidder,    \* result of BidderToPrebidSChains
    reqExt,             \* result of getExtJson
    pending,            \* keys of impsByBidder the loop has not visited yet
    bidderRequests,     \* the returned slice
    errs,               \* the returned error ("none" when there is none)
    user0,              \* the inbound user object as it was at the call
    source0,            \* the inbound source object as it was at the call
    account,            \* config.Account: per-regime overrides
    privacyConfig,      \* config.Privacy: system-wide defaults
    integrationType,    \* the caller's integration type
    ccpaPolicyOk,       \* ccpa.ReadFromRequest and Parse succeed
    enabled             \* the resolved enabled flags, per regime

reqVars == <<imps, user, source, ext, rawExtEmpty, aliases, syncs, app>>
runVars == <<pc, impsByBidder, explicitBuyerUIDs, sChainsByBidder, reqExt,
             pending, bidderRequests, errs, user0, source0>>
privVars == <<account, privacyConfig, integrationType, ccpaPolicyOk, enabled>>
vars == <<reqVars, runVars, privVars>>

(***************************************************************************)
(* Names                                                                   *)
(***************************************************************************)
PrebidExtKey == "prebid"
FirstPartyDataContextExtKey == "context"
sChainWildCard == "*"

CoreBidders == {"appnexus", "rubicon"}
AliasNames == {"alias"}
GivenNames == CoreBidders \cup AliasNames
ReservedKeys == {PrebidExtKey, FirstPartyDataContextExtKey}

EmptyMap == [k \in {} |-> TRUE]

(***************************************************************************)
(* Impression extensions.  A raw extension either fails to decode or       *)
(* decodes one level deep into a map from key to raw value.  The value at  *)
(* "prebid" records whether it is a JSON object, whether it decodes as     *)
(* ExtImpPrebid, its "bidder" field (absent, null or a map) and whether it *)
(* has further fields.                                                     *)
(***************************************************************************)
Params(i, k, via) == [imp |-> i, key |-> k, via |-> via]
ContextOf(i) == [imp |-> i, key |-> FirstPartyDataContextExtKey, via |-> "shared"]
NoBidderField == [kind |-> "absent", m |-> EmptyMap]

PrebidBlock(i, shape) ==
    [object |-> shape.pbObject,
     typed  |-> shape.pbTyped,
     bidder |-> IF shape.pbBidder = "map"
                THEN [kind |-> "map",
                      m |-> [k \in shape.pbKeys |-> Params(i, k, "prebid")]]
                ELSE [kind |-> shape.pbBidder, m |-> EmptyMap],
     rest   |-> shape.pbRest]

ImpExt(i, shape) ==
    [ok |-> shape.ok,
     m  |-> [k \in shape.top
                 \cup (IF shape.pb THEN {PrebidExtKey} ELSE {})
                 \cup (IF shape.ctx THEN {FirstPartyDataContextExtKey} ELSE {})
             |-> IF k = PrebidExtKey THEN PrebidBlock(i, shape)
                 ELSE IF k = FirstPartyDataContextExtKey THEN ContextOf(i)
                 ELSE Params(i, k, "top")]]

Shape(ok, top, pb, pbObject, pbTyped, pbBidder, pbKeys, pbRest, ctx) ==
    [ok |-> ok, top |-> top, pb |-> pb, pbObject |-> pbObject, pbTyped |-> pbTyped,
     pbBidder |-> pbBidder, pbKeys |-> pbKeys, pbRest |-> pbRest, ctx |-> ctx]

Legacy(top, ctx) == Shape(TRUE, top, FALSE, FALSE, FALSE, "absent", {}, FALSE, ctx)

ImpShapes ==
    { Shape(FALSE, {}, FALSE, FALSE, FALSE, "absent", {}, FALSE, FALSE),
      Legacy({}, FALSE),
      Legacy({"appnexus"}, FALSE),
      Legacy({"appnexus", "rubicon"}, TRUE),
      Shape(TRUE, {"alias", "rubicon"}, TRUE, TRUE, TRUE, "absent", {}, TRUE, FALSE),
      Shape(TRUE, {}, TRUE, TRUE, TRUE, "map", {"appnexus", "rubicon"}, FALSE, TRUE),
      Shape(TRUE, {"appnexus"}, TRUE, TRUE, TRUE, "map",
            {"rubicon", FirstPartyDataContextExtKey}, TRUE, TRUE),
      Shape(TRUE, {"rubicon"}, TRUE, TRUE, TRUE, "null", {}, FALSE, FALSE),
      Shape(TRUE, {"appnexus"}, TRUE, FALSE, FALSE, "absent", {}, FALSE, TRUE),
      Shape(TRUE, {"alias"}, TRUE, TRUE, FALSE, "map", {"rubicon"}, TRUE, FALSE),
      Shape(TRUE, {"appnexus"}, TRUE, TRUE, TRUE, "map", {}, FALSE, FALSE) }

MaxImps == 2

ShapeLists == UNION {[1..n -> ImpShapes] : n \in 0..MaxImps}
ImpsOf(shapes) == [i \in 1..Len(shapes) |-> [id |-> i, ext |-> ImpExt(i, shapes[i])]]

(***************************************************************************)
(* parseImpExts: the decoded extension of every impression, or an error    *)
(* when one of them does not decode.                                       *)
(***************************************************************************)
parseImpExts(is) ==
    IF \E i \in 1..Len(is) : ~is[i].ext.ok
    THEN [err |-> TRUE, exts |-> <<>>]
    ELSE [err |-> FALSE, exts |-> [i \in 1..Len(is) |-> is[i].ext.m]]

(***************************************************************************)
(* sanitizedImpCopy: one copy of imp per key of bidderExts other than      *)
(* "prebid" and "context", appended to out[bidder].  The copy's extension  *)
(* has "bidder", the prebid block when one was given (its "bidder" field   *)
(* deleted when it decodes as an object) and the context when not empty.   *)
(***************************************************************************)
\* Faulty variant of StripBidderField: the "bidder" field is left in the block.
KeepBidderField(rawPrebidExt) == rawPrebidExt

StripBidderField(rawPrebidExt) ==
    IF rawPrebidExt.object /\ rawPrebidExt.bidder.kind # "absent"
    THEN [rawPrebidExt EXCEPT !.bidder = NoBidderField]
    ELSE rawPrebidExt

NewExt(bidderExt, hasPrebid, rawPrebidExt, hasContext, firstPartyDataContext) ==
    [k \in {"bidder"}
         \cup (IF hasPrebid THEN {PrebidExtKey} ELSE {})
         \cup (IF hasContext THEN {FirstPartyDataContextExtKey} ELSE {})
     |-> IF k = "bidder" THEN bidderExt
         ELSE IF k = PrebidExtKey THEN StripBidderField(rawPrebidExt)
         ELSE firstPartyDataContext]

CopyKeys(bidderExts) == DOMAIN bidderExts \ ReservedKeys

sanitizedImpCopy(imp, bidderExts, hasPrebid, rawPrebidExt, hasContext, firstPartyDataContext, out) ==
    [b \in DOMAIN out \cup CopyKeys(bidderExts) |->
        IF b \in CopyKeys(bidderExts)
        THEN Append(IF b \in DOMAIN out THEN out[b] ELSE <<>>,
                    [id |-> imp.id,
                     ext |-> NewExt(bidderExts[b], hasPrebid, rawPrebidExt,
                                    hasContext, firstPartyDataContext)])
        ELSE out[b]]

(***************************************************************************)
(* splitImps: impressions are visited in input order.  An impression whose *)
(* prebid block decodes as ExtImpPrebid with a non-nil Bidder map is       *)
(* copied for the keys of that map, any other one for the keys of its      *)
(* top-level extension.  The errors of sanitizedImpCopy (a json.Marshal of *)
(* values json.Unmarshal has just produced) cannot occur and are dropped   *)
(* by the code in any case.                                                *)
(***************************************************************************)
NoPrebid == [object |-> FALSE, typed |-> FALSE, bidder |-> NoBidderField, rest |-> FALSE]

DecodesBidderMap(impExt) ==
    /\ PrebidExtKey \in DOMAIN impExt
    /\ impExt[PrebidExtKey].object
    /\ impExt[PrebidExtKey].typed
    /\ impExt[PrebidExtKey].bidder.kind = "map"

\* Faulty variant of BidderExtsOf: prebid.bidder is never used.
BidderExtsTopLevelOnly(impExt) == impExt

BidderExtsOf(impExt) ==
    IF DecodesBidderMap(impExt) THEN impExt[PrebidExtKey].bidder.m ELSE impExt

RECURSIVE splitImpsFrom(_, _, _, _)
splitImpsFrom(is, impExts, i, out) ==
    IF i > Len(is) THEN out
    ELSE LET impExt == impExts[i]
             hasContext == FirstPartyDataContextExtKey \in DOMAIN impExt
             hasPrebid == PrebidExtKey \in DOMAIN impExt
         IN  splitImpsFrom(is, impExts, i + 1,
                 sanitizedImpCopy(is[i], BidderExtsOf(impExt), hasPrebid,
                     IF hasPrebid THEN impExt[PrebidExtKey] ELSE NoPrebid,
                     hasContext,
                     IF hasContext THEN impExt[FirstPartyDataContextExtKey]
                                   ELSE ContextOf(i),
                     out))

splitImps(is) ==
    LET parsed == parseImpExts(is)
    IN  IF parsed.err THEN [err |-> TRUE, m |-> EmptyMap]
        ELSE [err |-> FALSE, m |-> splitImpsFrom(is, parsed.exts, 1, EmptyMap)]

(***************************************************************************)
(* Users.  A buyer identifier is a pair naming where it comes from; the    *)
(* user extension holds the prebid directive (buyeruids), the consent      *)
(* string, the digitrust block and a key ExtUser does not declare.         *)
(***************************************************************************)
NoUID == <<"", "">>
InboundUID == <<"inbound", "user">>
ExplicitUID(b) == <<"explicit", b>>
SyncedUID(core) == <<"sync", core>>

NilExt == [kind |-> "nil", prebid |-> FALSE, buyeruids |-> EmptyMap,
           consent |-> "", digitrust |-> "", other |-> ""]
MalformedExt == [NilExt EXCEPT !.kind = "malformed"]
UserExt(prebid, keys, consent, digitrust, other) ==
    [kind |-> "object", prebid |-> prebid,
     buyeruids |-> [b \in keys |-> ExplicitUID(b)],
     consent |-> consent, digitrust |-> digitrust, other |-> other]

NilUser == [present |-> FALSE, buyeruid |-> NoUID, ext |-> NilExt]
User(buyeruid, e) == [present |-> TRUE, buyeruid |-> buyeruid, ext |-> e]

BuyerUIDKeys == { {}, {"appnexus"}, {"alias"}, {"appnexus", "rubicon"},
                  {"rubicon", "alias"} }
UserExts ==
    {NilExt, MalformedExt}
    \cup {UserExt(FALSE, {}, c, d, o) :
              c \in {"", "consent1"}, d \in {"", "digitrust1"}, o \in {"", "other1"}}
    \cup UNION {{UserExt(TRUE, ks, c, d, o) :
              c \in {"", "consent1"}, d \in {"", "digitrust1"}, o \in {"", "other1"}}
                : ks \in BuyerUIDKeys}
Users == {NilUser} \cup {User(u, e) : u \in {NoUID, InboundUID}, e \in UserExts}

(***************************************************************************)
(* extractBuyerUIDs: returns user.ext.prebid.buyeruids and rewrites        *)
(* user.Ext in place: the typed ExtUser without Prebid is encoded again    *)
(* when Consent or DigiTrust is set, and user.Ext is set to nil otherwise. *)
(* Encoding the typed value keeps the fields ExtUser declares only.        *)
(***************************************************************************)
MarshalExtUser(userExt) == [userExt EXCEPT !.other = ""]

extractBuyerUIDs(u) ==
    IF ~u.present \/ u.ext.kind = "nil"
    THEN [err |-> FALSE, uids |-> EmptyMap, user |-> u]
    ELSE IF u.ext.kind = "malformed"
    THEN [err |-> TRUE, uids |-> EmptyMap, user |-> u]
    ELSE IF ~u.ext.prebid
    THEN [err |-> FALSE, uids |-> EmptyMap, user |-> u]
    ELSE LET userExt == [u.ext EXCEPT !.prebid = FALSE, !.buyeruids = EmptyMap]
         IN  [err |-> FALSE,
              uids |-> u.ext.buyeruids,
              user |-> [u EXCEPT !.ext =
                            IF userExt.consent # "" \/ userExt.digitrust # ""
                            THEN MarshalExtUser(userExt)
                            ELSE NilExt]]

(***************************************************************************)
(* copyWithBuyerUID and prepareUser.  The explicit identifier is looked up *)
(* under the given name, the synced one under the canonical name.          *)
(***************************************************************************)
copyWithBuyerUID(u, buyerUID) ==
    IF ~u.present THEN [NilUser EXCEPT !.present = TRUE, !.buyeruid = buyerUID]
    ELSE IF u.buyeruid = NoUID THEN [u EXCEPT !.buyeruid = buyerUID]
    ELSE u

GetId(usersyncs, coreBidder) ==
    IF coreBidder \in usersyncs
    THEN [id |-> SyncedUID(coreBidder), ok |-> TRUE]
    ELSE [id |-> NoUID, ok |-> FALSE]

\* Faulty variant of prepareUser: the synced identifier is preferred.
prepareUserSyncFirst(u, givenBidder, coreBidder, explicit, usersyncs) ==
    LET cookie == GetId(usersyncs, coreBidder)
    IN  [user |-> IF cookie.ok THEN copyWithBuyerUID(u, cookie.id)
                  ELSE IF givenBidder \in DOMAIN explicit
                  THEN copyWithBuyerUID(u, explicit[givenBidder])
                  ELSE u,
         hadSync |-> cookie.ok]

\* Faulty variant of prepareUser: the explicit identifier is looked up under
\* the canonical name.
prepareUserByCoreName(u, givenBidder, coreBidder, explicit, usersyncs) ==
    LET cookie == GetId(usersyncs, coreBidder)
    IN  [user |-> IF coreBidder \in DOMAIN explicit
                  THEN copyWithBuyerUID(u, explicit[coreBidder])
                  ELSE IF cookie.ok THEN copyWithBuyerUID(u, cookie.id)
                  ELSE u,
         hadSync |-> cookie.ok]

prepareUser(u, givenBidder, coreBidder, explicit, usersyncs) ==
    LET cookie == GetId(usersyncs, coreBidder)
    IN  [user |-> IF givenBidder \in DOMAIN explicit
                  THEN copyWithBuyerUID(u, explicit[givenBidder])
                  ELSE IF cookie.ok THEN copyWithBuyerUID(u, cookie.id)
                  ELSE u,
         hadSync |-> cookie.ok]

resolveBidder(bidder, als) ==
    IF bidder \in DOMAIN als THEN als[bidder] ELSE bidder

(***************************************************************************)
(* Supply chains.  req.Ext.Prebid.SChains is a list of associations, each  *)
(* a list of bidder names (or the wildcard) and one chain.  The map built   *)
(* by BidderToPrebidSChains holds, for each name, a pointer to the chain   *)
(* of the association that lists it (SChains is taken to be a slice of     *)
(* pointers, so that &schainWrapper.SChain names the association's own     *)
(* chain and not the loop variable's).                                     *)
(***************************************************************************)
Chains == {"X", "Y"}
BidderLists == { <<sChainWildCard>>, <<"appnexus">>, <<"rubicon">>,
                 <<sChainWildCard, "appnexus">>, <<"appnexus", "rubicon">>,
                 <<"appnexus", "appnexus">> }
Associations == {[bidders |-> bs, schain |-> c] : bs \in BidderLists, c \in Chains}

MaxSChains == 2

SChainLists == UNION {[1..n -> Associations] : n \in 0..MaxSChains}
NilReqExt == [present |-> FALSE, schains |-> <<>>, encodes |-> TRUE]
ReqExt(schains, encodes) == [present |-> TRUE, schains |-> schains, encodes |-> encodes]

\* Faulty variant of sChainsOfBidders: a second chain for a name replaces the
\* first instead of being rejected.
RECURSIVE sChainsLastWins(_, _, _, _)
sChainsLastWins(bidders, schain, j, acc) ==
    IF j > Len(bidders) THEN acc
    ELSE sChainsLastWins(bidders, schain, j + 1,
             [err |-> FALSE,
              m |-> [b \in DOMAIN acc.m \cup {bidders[j]} |->
                        IF b = bidders[j] THEN schain ELSE acc.m[b]]])

RECURSIVE sChainsOfBidders(_, _, _, _)
sChainsOfBidders(bidders, schain, j, acc) ==
    IF acc.err \/ j > Len(bidders) THEN acc
    ELSE IF bidders[j] \in DOMAIN acc.m
    THEN [err |-> TRUE, m |-> EmptyMap]
    ELSE sChainsOfBidders(bidders, schain, j + 1,
             [err |-> FALSE,
              m |-> [b \in DOMAIN acc.m \cup {bidders[j]} |->
                        IF b = bidders[j] THEN schain ELSE acc.m[b]]])

RECURSIVE sChainsFrom(_, _, _)
sChainsFrom(schains, i, acc) ==
    IF acc.err \/ i > Len(schains) THEN acc
    ELSE sChainsFrom(schains, i + 1,
             sChainsOfBidders(schains[i].bidders, schains[i].schain, 1, acc))

BidderToPrebidSChains(e) ==
    IF e.present THEN sChainsFrom(e.schains, 1, [err |-> FALSE, m |-> EmptyMap])
    ELSE [err |-> FALSE, m |-> EmptyMap]

(***************************************************************************)
(* getExtJson: empty when the raw extension is empty or req.Ext is nil,    *)
(* else the encoding of a copy of req.Ext whose SChains are nil.           *)
(***************************************************************************)
getExtJson(rawEmpty, unpackedExt) ==
    IF rawEmpty \/ ~unpackedExt.present
    THEN [err |-> FALSE, json |-> [empty |-> TRUE, schains |-> <<>>]]
    ELSE IF ~unpackedExt.encodes
    THEN [err |-> TRUE, json |-> [empty |-> TRUE, schains |-> <<>>]]
    ELSE [err |-> FALSE, json |-> [empty |-> FALSE, schains |-> <<>>]]

(***************************************************************************)
(* prepareSource.  reqCopy is a shallow copy of the inbound request, so    *)
(* reqCopy.Source is the inbound request's pointer: a selected chain is    *)
(* written into the object that pointer names, and into a new object only  *)
(* when the pointer is nil.  The result names the object the copy ends up  *)
(* with ("nil", "shared" with the inbound request, or its "own") and tells *)
(* whether the shared object was written.                                  *)
(***************************************************************************)
NoSourceExt == <<"", "">>
InboundSourceExt == <<"inbound", "source">>
SourceExt(selectedSChain) == <<"schain", selectedSChain>>
NilSource == [present |-> FALSE, ext |-> NoSourceExt]
InboundSource == [present |-> TRUE, ext |-> InboundSourceExt]

SelectedSChain(bidder, sChains) ==
    IF bidder \in DOMAIN sChains THEN sChains[bidder] ELSE sChains[sChainWildCard]

prepareSource(reqSource, bidder, sChains) ==
    IF bidder \notin DOMAIN sChains /\ sChainWildCard \notin DOMAIN sChains
    THEN [ref |-> IF reqSource.present THEN "shared" ELSE "nil",
          ext |-> reqSource.ext, written |-> FALSE]
    ELSE IF ~reqSource.present
    THEN [ref |-> "own", ext |-> SourceExt(SelectedSChain(bidder, sChains)),
          written |-> FALSE]
    ELSE [ref |-> "shared", ext |-> SourceExt(SelectedSChain(bidder, sChains)),
          written |-> TRUE]

(***************************************************************************)
(* The cookie-flag label of a BidderRequest.                               *)
(***************************************************************************)
CookieFlagYes == "yes"
CookieFlagNo == "no"
\* Faulty variant of cookieFlag: the app object is not looked at.
cookieFlagFromSync(hadSync, appPresent) ==
    IF ~hadSync THEN CookieFlagNo ELSE CookieFlagYes

cookieFlag(hadSync, appPresent) ==
    IF ~hadSync /\ ~appPresent THEN CookieFlagNo ELSE CookieFlagYes

(***************************************************************************)
(* Privacy: the enabled flag of each regime.                               *)
(***************************************************************************)
IntegrationTypes == {"amp", "app", "video", "web"}
Regimes == {"gdpr", "ccpa", "lmt"}

EnabledForIntegrationType(accountRegime, it) == accountRegime[it]

gdprEnabled(acct, cfg, it) ==
    IF EnabledForIntegrationType(acct.gdpr, it) # "unset"
    THEN EnabledForIntegrationType(acct.gdpr, it) = "true"
    ELSE cfg.gdpr

\* Faulty variant of ccpaEnabled: the account override is not looked at.
ccpaEnabledDefaultOnly(acct, cfg, requestType) == cfg.ccpa

ccpaEnabled(acct, cfg, requestType) ==
    IF EnabledForIntegrationType(acct.ccpa, requestType) # "unset"
    THEN EnabledForIntegrationType(acct.ccpa, requestType) = "true"
    ELSE cfg.ccpa

extractCCPA(policyOk, cfg, acct, requestType) ==
    IF ~policyOk THEN [err |-> TRUE, enforcer |-> "nil"]
    ELSE [err |-> FALSE,
          enforcer |-> IF ccpaEnabled(acct, cfg, requestType) THEN "true" ELSE "false"]

extractLMT(cfg) == IF cfg.lmt THEN "true" ELSE "false"

(***************************************************************************)
(* getAuctionBidderRequests, one action per step of its body.              *)
(***************************************************************************)
Abort(e) ==
    /\ errs' = e
    /\ bidderRequests' = <<>>
    /\ pc' = "done"

SplitImpsStep ==
    /\ pc = "splitImps"
    /\ LET r == splitImps(imps)
       IN  IF r.err
           THEN /\ Abort("impDecode")
                /\ UNCHANGED impsByBidder
           ELSE /\ impsByBidder' = r.m
                /\ pc' = "extractBuyerUIDs"
                /\ UNCHANGED <<errs, bidderRequests>>
    /\ UNCHANGED <<reqVars, privVars, explicitBuyerUIDs, sChainsByBidder, reqExt,
                   pending, user0, source0>>

ExtractBuyerUIDsStep ==
    /\ pc = "extractBuyerUIDs"
    /\ LET r == extractBuyerUIDs(user)
       IN  /\ user' = r.user
           /\ IF r.err
              THEN /\ Abort("userDecode")
                   /\ UNCHANGED explicitBuyerUIDs
              ELSE /\ explicitBuyerUIDs' = r.uids
                   /\ pc' = "sChains"
                   /\ UNCHANGED <<errs, bidderRequests>>
    /\ UNCHANGED <<imps, source, ext, rawExtEmpty, aliases, syncs, app, privVars,
                   impsByBidder, sChainsByBidder, reqExt, pending, user0, source0>>

SChainsStep ==
    /\ pc = "sChains"
    /\ LET r == BidderToPrebidSChains(ext)
       IN  IF r.err
           THEN /\ Abort("schainDup")
                /\ UNCHANGED sChainsByBidder
           ELSE /\ sChainsByBidder' = r.m
                /\ pc' = "extJson"
                /\ UNCHANGED <<errs, bidderRequests>>
    /\ UNCHANGED <<reqVars, privVars, impsByBidder, explicitBuyerUIDs, reqExt,
                   pending, user0, source0>>

ExtJsonStep ==
    /\ pc = "extJson"
    /\ LET r == getExtJson(rawExtEmpty, ext)
       IN  IF r.err
           THEN /\ Abort("extEncode")
                /\ UNCHANGED <<reqExt, pending>>
           ELSE /\ reqExt' = r.json
                /\ pending' = DOMAIN impsByBidder
                /\ pc' = "loop"
                /\ UNCHANGED <<errs, bidderRequests>>
    /\ UNCHANGED <<reqVars, privVars, impsByBidder, explicitBuyerUIDs,
                   sChainsByBidder, user0, source0>>

\* One iteration of "for bidder, imps := range impsByBidder": Go visits the keys
\* of a map in an unspecified order.
LoopStep ==
    /\ pc = "loop"
    /\ \E bidder \in pending :
         LET coreBidder == resolveBidder(bidder, aliases)
             src == prepareSource(source, bidder, sChainsByBidder)
             usr == prepareUser(user, bidder, coreBidder, explicitBuyerUIDs, syncs)
         IN  /\ source' = IF src.written THEN [source EXCEPT !.ext = src.ext]
                          ELSE source
             /\ bidderRequests' = Append(bidderRequests,
                    [BidderName     |-> bidder,
                     BidderCoreName |-> coreBidder,
                     Imp            |-> impsByBidder[bidder],
                     Ext            |-> reqExt,
                     Source         |-> [ref |-> src.ref, ext |-> src.ext],
                     User           |-> usr.user,
                     CookieFlag     |-> cookieFlag(usr.hadSync, app)])
             /\ pending' = pending \ {bidder}
    /\ UNCHANGED <<imps, user, ext, rawExtEmpty, aliases, syncs, app, privVars, pc,
                   impsByBidder, explicitBuyerUIDs, sChainsByBidder, reqExt, errs,
                   user0, source0>>

ReturnStep ==
    /\ pc = "loop"
    /\ pending = {}
    /\ pc' = "done"
    /\ UNCHANGED <<reqVars, privVars, impsByBidder, explicitBuyerUIDs,
                   sChainsByBidder, reqExt, pending, bidderRequests, errs, user0,
                   source0>>

Next ==
    \/ SplitImpsStep
    \/ ExtractBuyerUIDsStep
    \/ SChainsStep
    \/ ExtJsonStep
    \/ LoopStep
    \/ ReturnStep

(***************************************************************************)
(* The source object a bidder request sees through its Source pointer.     *)
(***************************************************************************)
SourceSeen(br) ==
    IF br.Source.ref = "shared" THEN source
    ELSE IF br.Source.ref = "own" THEN [present |-> TRUE, ext |-> br.Source.ext]
    ELSE NilSource

(***************************************************************************)
(* Privacy steps.                                                          *)
(***************************************************************************)
Resolve(regime, value) ==
    /\ pc = "privacy"
    /\ enabled[regime] = "unresolved"
    /\ enabled' = [enabled EXCEPT ![regime] = value]
    /\ UNCHANGED <<reqVars, runVars, account, privacyConfig, integrationType,
                   ccpaPolicyOk>>

GdprEnabledStep ==
    Resolve("gdpr", IF gdprEnabled(account, privacyConfig, integrationType)
                    THEN "true" ELSE "false")

ExtractCCPAStep ==
    Resolve("ccpa", extractCCPA(ccpaPolicyOk, privacyConfig, account,
                                integrationType).enforcer)

ExtractLMTStep == Resolve("lmt", extractLMT(privacyConfig))

NextPrivacy ==
    \/ GdprEnabledStep
    \/ ExtractCCPAStep
    \/ ExtractLMTStep

(***************************************************************************)
(* Initial states.                                                         *)
(***************************************************************************)
NoOverride == [it \in IntegrationTypes |-> "unset"]
Overrides ==
    {NoOverride} \cup
    {[NoOverride EXCEPT ![it] = v] : it \in IntegrationTypes, v \in {"true", "false"}}

PrivacyIdle ==
    /\ account = [r \in Regimes |-> NoOverride]
    /\ privacyConfig = [r \in Regimes |-> FALSE]
    /\ integrationType = "web"
    /\ ccpaPolicyOk = TRUE
    /\ enabled = [r \in Regimes |-> "unresolved"]

RunFrom(shapeLists, users, sources, reqExts, rawEmpties, aliasMaps, syncSets, apps) ==
    /\ imps \in {ImpsOf(sl) : sl \in shapeLists}
    /\ user \in users
    /\ source \in sources
    /\ ext \in reqExts
    /\ rawExtEmpty \in rawEmpties
    /\ aliases \in aliasMaps
    /\ syncs \in syncSets
    /\ app \in apps
    /\ pc = "splitImps"
    /\ impsByBidder = EmptyMap
    /\ explicitBuyerUIDs = EmptyMap
    /\ sChainsByBidder = EmptyMap
    /\ reqExt = [empty |-> TRUE, schains |-> <<>>]
    /\ pending = {}
    /\ bidderRequests = <<>>
    /\ errs = "none"
    /\ user0 = user
    /\ source0 = source
    /\ PrivacyIdle

AliasMap == [a \in AliasNames |-> "appnexus"]
AllThree == <<Shape(TRUE, {"alias", "rubicon"}, TRUE, TRUE, TRUE, "absent", {}, TRUE, FALSE),
              Legacy({"appnexus", "rubicon"}, TRUE)>>
OneBidder == <<Legacy({"appnexus"}, FALSE)>>
Malformed == <<Shape(FALSE, {}, FALSE, FALSE, FALSE, "absent", {}, FALSE, FALSE)>>
ExplicitUser == User(NoUID, UserExt(TRUE, {"appnexus", "rubicon"}, "consent1", "", ""))
MalformedUser == User(NoUID, MalformedExt)

InitSplit ==
    RunFrom(ShapeLists, {NilUser, ExplicitUser}, {NilSource, InboundSource},
            {NilReqExt}, {TRUE}, {AliasMap}, {{}}, {FALSE})

InitUser ==
    RunFrom({AllThree, OneBidder}, Users, {NilSource}, {NilReqExt}, {TRUE},
            {EmptyMap, AliasMap}, SUBSET CoreBidders, BOOLEAN)

ReqExts == {NilReqExt} \cup {ReqExt(sc, TRUE) : sc \in SChainLists}
                       \cup {ReqExt(<<>>, FALSE)}

InitSChain ==
    \/ RunFrom({AllThree, OneBidder}, {NilUser}, {NilSource, InboundSource}, ReqExts,
               {FALSE}, {AliasMap}, {{"appnexus"}}, {FALSE})
    \/ RunFrom({Malformed}, {NilUser}, {NilSource}, ReqExts, {FALSE}, {AliasMap},
               {{}}, {FALSE})
    \/ RunFrom({OneBidder}, {MalformedUser}, {NilSource}, ReqExts, {FALSE, TRUE},
               {AliasMap}, {{}}, {FALSE})

Init == InitSplit \/ InitUser \/ InitSChain

InitPrivacy ==
    /\ account \in [Regimes -> Overrides]
    /\ privacyConfig \in [Regimes -> BOOLEAN]
    /\ integrationType \in IntegrationTypes
    /\ ccpaPolicyOk \in BOOLEAN
    /\ enabled = [r \in Regimes |-> "unresolved"]
    /\ imps = <<>>
    /\ user = NilUser
    /\ source = NilSource
    /\ ext = NilReqExt
    /\ rawExtEmpty = TRUE
    /\ aliases = EmptyMap
    /\ syncs = {}
    /\ app = FALSE
    /\ pc = "privacy"
    /\ impsByBidder = EmptyMap
    /\ explicitBuyerUIDs = EmptyMap
    /\ sChainsByBidder = EmptyMap
    /\ reqExt = [empty |-> TRUE, schains |-> <<>>]
    /\ pending = {}
    /\ bidderRequests = <<>>
    /\ errs = "none"
    /\ user0 = NilUser
    /\ source0 = NilSource

Spec == Init /\ [][Next]_vars
SpecSplit == InitSplit /\ [][Next]_vars
SpecUser == InitUser /\ [][Next]_vars
SpecSChain == InitSChain /\ [][Next]_vars
SpecPrivacy == InitPrivacy /\ [][NextPrivacy]_vars

(***************************************************************************)
(* Vocabulary of the properties.                                           *)
(***************************************************************************)
SplitDone == pc # "splitImps" /\ errs # "impDecode"
Finished == pc = "done" /\ errs = "none"
Requests == {bidderRequests[n] : n \in 1..Len(bidderRequests)}
AllKeys == GivenNames \cup ReservedKeys

HasPrebid(i) == PrebidExtKey \in DOMAIN imps[i].ext.m
PrebidOf(i) == imps[i].ext.m[PrebidExtKey]
HasBidderMap(i) == HasPrebid(i) /\ PrebidOf(i).bidder.kind = "map"
\* the extension decodes: the raw extension does, and so does its prebid block
Decodes(i) == imps[i].ext.ok /\ (HasPrebid(i) => PrebidOf(i).object /\ PrebidOf(i).typed)

\* the positions of impression i's copies in bidder b's list
CopiesOf(b, i) ==
    IF b \in DOMAIN impsByBidder
    THEN {n \in 1..Len(impsByBidder[b]) : impsByBidder[b][n].id = i}
    ELSE {}

\* C1 as stated: the targets are the keys of prebid.bidder when that map is
\* present, otherwise the top-level keys other than "prebid" and "context".
StatedTargets(i) ==
    IF HasBidderMap(i) THEN DOMAIN PrebidOf(i).bidder.m
    ELSE DOMAIN imps[i].ext.m \ ReservedKeys

\* C1 (as stated): after splitImps, bidder b holds a copy of impression i
\* if and only if b is a stated target of i, for every impression list whose
\* extensions all decode.
C1_AsStated ==
    (SplitDone /\ \A i \in 1..Len(imps) : Decodes(i)) =>
        \A i \in 1..Len(imps) : \A b \in AllKeys :
            (CopiesOf(b, i) # {}) <=> (b \in StatedTargets(i))

\* the targets the code serves: "prebid" and "context" are never bidders,
\* under prebid.bidder no more than at the top level
ServedTargets(i) == StatedTargets(i) \ ReservedKeys

\* C1 (amended): after splitImps on impressions whose extensions all decode,
\* bidder b holds exactly one copy of impression i when b is a key, other than
\* "prebid" and "context", of i's prebid.bidder map (or of i's top-level
\* extension when it has no such map), and none otherwise; copies are in
\* impression order and a bidder without copies is no key of the result.
C1_SplitImpsTargets ==
    (SplitDone /\ \A i \in 1..Len(imps) : Decodes(i)) =>
        /\ \A i \in 1..Len(imps) : \A b \in AllKeys :
              Cardinality(CopiesOf(b, i)) = (IF b \in ServedTargets(i) THEN 1 ELSE 0)
        /\ \A b \in DOMAIN impsByBidder :
              /\ impsByBidder[b] # <<>>
              /\ \A m, n \in 1..Len(impsByBidder[b]) :
                    m < n => impsByBidder[b][m].id < impsByBidder[b][n].id
              /\ \A n \in 1..Len(impsByBidder[b]) :
                    impsByBidder[b][n].id \in 1..Len(imps)

C1_Witness ==
    /\ pc = "extractBuyerUIDs"
    /\ Len(imps) = MaxImps
    /\ \A i \in 1..Len(imps) : Decodes(i)
    /\ \E i, j \in 1..Len(imps) :
          /\ HasBidderMap(i) /\ Cardinality(ServedTargets(i)) > 1
          /\ ~HasBidderMap(j) /\ ServedTargets(j) # {}
    /\ \E b \in DOMAIN impsByBidder : Len(impsByBidder[b]) = MaxImps

(***************************************************************************)
(* C2: isolation between bidders.                                          *)
(***************************************************************************)
ParamsOfBidder(b) ==
    {Params(i, b, via) : i \in 1..Len(imps), via \in {"top", "prebid"}}

\* extension e of an impression copy holds b's parameters: under a top-level
\* key, or inside the bidder map of its prebid block
HoldsParamsOf(e, b) ==
    \/ \E k \in DOMAIN e \ {PrebidExtKey} : e[k] \in ParamsOfBidder(b)
    \/ /\ PrebidExtKey \in DOMAIN e
       /\ e[PrebidExtKey].bidder.kind = "map"
       /\ \E k \in DOMAIN e[PrebidExtKey].bidder.m :
             k = b \/ e[PrebidExtKey].bidder.m[k] \in ParamsOfBidder(b)

\* user object u holds b's explicit buyer identifier
HoldsExplicitUIDOf(u, b) ==
    \/ u.buyeruid = ExplicitUID(b)
    \/ b \in DOMAIN u.ext.buyeruids

\* C2: in every request of the output, no impression extension of bidder A
\* holds the parameters of another bidder B, and A's user object (buyer
\* identifier and extension) does not hold B's explicit buyer identifier.
C2_NoCrossBidderLeak ==
    \A br \in Requests : \A b \in GivenNames \ {br.BidderName} :
        /\ \A n \in 1..Len(br.Imp) : ~HoldsParamsOf(br.Imp[n].ext, b)
        /\ ~HoldsExplicitUIDOf(br.User, b)

C2_Witness ==
    /\ Finished
    /\ \E a, b \in Requests :
          /\ a.BidderName # b.BidderName
          /\ {a.BidderName, b.BidderName} \subseteq DOMAIN user0.ext.buyeruids
          /\ a.User.buyeruid = ExplicitUID(a.BidderName)
          /\ b.User.buyeruid = ExplicitUID(b.BidderName)
          /\ \E i \in 1..Len(imps) :
                /\ HasBidderMap(i)
                /\ {a.BidderName, b.BidderName} \subseteq DOMAIN PrebidOf(i).bidder.m
                /\ \E n \in 1..Len(a.Imp) : a.Imp[n].id = i

(***************************************************************************)
(* C7: the copies of an impression that declares its bidders under         *)
(* prebid.bidder and carries a context.                                    *)
(***************************************************************************)
DeclaresWithContext(i) ==
    /\ Decodes(i)
    /\ HasBidderMap(i)
    /\ FirstPartyDataContextExtKey \in DOMAIN imps[i].ext.m

CopyExts(b, i) == {impsByBidder[b][n].ext : n \in CopiesOf(b, i)}

\* C7 (as stated): each declared bidder b gets exactly one copy, with the
\* extension {"bidder": b's parameters, "context": the context} and no other key.
C7_AsStated ==
    SplitDone =>
        \A i \in 1..Len(imps) : DeclaresWithContext(i) =>
            \A b \in DOMAIN PrebidOf(i).bidder.m :
                /\ Cardinality(CopiesOf(b, i)) = 1
                /\ \A e \in CopyExts(b, i) :
                      /\ DOMAIN e = {"bidder", FirstPartyDataContextExtKey}
                      /\ e["bidder"] = PrebidOf(i).bidder.m[b]
                      /\ e[FirstPartyDataContextExtKey] =
                             imps[i].ext.m[FirstPartyDataContextExtKey]

\* C7 (amended): each bidder b declared under prebid.bidder (a key other than
\* "prebid" and "context") gets exactly one copy, whose extension has exactly
\* three keys: "bidder" with b's parameters, "context" with the shared context,
\* and "prebid" with the prebid block less its "bidder" field; so it holds no
\* parameters of another bidder.
C7_DeclaredBidderCopy ==
    SplitDone =>
        \A i \in 1..Len(imps) : DeclaresWithContext(i) =>
            \A b \in DOMAIN PrebidOf(i).bidder.m \ ReservedKeys :
                /\ Cardinality(CopiesOf(b, i)) = 1
                /\ \A e \in CopyExts(b, i) :
                      /\ DOMAIN e = {"bidder", PrebidExtKey, FirstPartyDataContextExtKey}
                      /\ e["bidder"] = PrebidOf(i).bidder.m[b]
                      /\ e[FirstPartyDataContextExtKey] =
                             imps[i].ext.m[FirstPartyDataContextExtKey]
                      /\ e[PrebidExtKey] =
                             [PrebidOf(i) EXCEPT !.bidder = NoBidderField]
                      /\ \A o \in GivenNames \ {b} : ~HoldsParamsOf(e, o)

C7_Witness ==
    /\ pc = "extractBuyerUIDs"
    /\ \E i \in 1..Len(imps) :
          /\ DeclaresWithContext(i)
          /\ DOMAIN PrebidOf(i).bidder.m = {"appnexus", "rubicon"}
          /\ CopiesOf("appnexus", i) # {}
          /\ CopiesOf("rubicon", i) # {}

(***************************************************************************)
(* C3, C6, C9: supply chains.                                              *)
(***************************************************************************)
\* the associations of the request that list the name
AssociationsOf(name) ==
    {i \in 1..Len(ext.schains) :
        \E j \in 1..Len(ext.schains[i].bidders) : ext.schains[i].bidders[j] = name}

\* the request declares exactly a wildcard chain x and a chain y for bidder a
DeclaresWildcardAnd(a, x, y) ==
    /\ ext.present
    /\ \/ ext.schains = <<[bidders |-> <<sChainWildCard>>, schain |-> x],
                          [bidders |-> <<a>>, schain |-> y]>>
       \/ ext.schains = <<[bidders |-> <<a>>, schain |-> y],
                          [bidders |-> <<sChainWildCard>>, schain |-> x]>>

\* C3: with a wildcard chain x and a chain y for bidder a, in either order,
\* the source extension of a's returned request encodes y and that of every
\* other returned request encodes x.
C3_SpecificOverWildcard ==
    Finished =>
        \A a \in CoreBidders : \A x, y \in Chains :
            DeclaresWildcardAnd(a, x, y) =>
                \A br \in Requests :
                    SourceSeen(br).ext =
                        SourceExt(IF br.BidderName = a THEN y ELSE x)

\* any name, the wildcard included, listed by two associations
NamedTwice == \E name \in GivenNames \cup {sChainWildCard} :
                  Cardinality(AssociationsOf(name)) > 1

ImpsDecode == \A i \in 1..Len(imps) : imps[i].ext.ok
UserDecodes == ~(user0.present /\ user0.ext.kind = "malformed")

\* C6 (as stated): a name listed by two associations makes
\* BidderToPrebidSChains fail without a map, and getAuctionBidderRequests
\* return that error and no request, whatever the impressions and the user.
C6_AsStated ==
    (ext.present /\ NamedTwice) =>
        /\ BidderToPrebidSChains(ext) = [err |-> TRUE, m |-> EmptyMap]
        /\ pc = "done" => (errs = "schainDup" /\ bidderRequests = <<>>)

\* C6 (amended): a name listed by two associations makes
\* BidderToPrebidSChains fail without a map, and getAuctionBidderRequests
\* return no request and a single error: that error when the impression
\* extensions and the user extension decode, and otherwise the decoding
\* error, which is raised first.
C6_DuplicateRejected ==
    (ext.present /\ NamedTwice) =>
        /\ BidderToPrebidSChains(ext) = [err |-> TRUE, m |-> EmptyMap]
        /\ sChainsByBidder = EmptyMap
        /\ bidderRequests = <<>>
        /\ pc \notin {"extJson", "loop"}
        /\ pc = "done" =>
              errs = IF ~ImpsDecode THEN "impDecode"
                     ELSE IF ~UserDecodes THEN "userDecode"
                     ELSE "schainDup"

C6_Witness ==
    /\ pc = "done"
    /\ errs = "schainDup"
    /\ ext.present /\ NamedTwice
    /\ Cardinality(AssociationsOf(sChainWildCard)) <= 1
    /\ imps # <<>>

\* the chain resolved for a bidder: its own, else the wildcard's
Resolves(b) == b \in DOMAIN sChainsByBidder \/ sChainWildCard \in DOMAIN sChainsByBidder

\* C9: in the loop and after it, the inbound request's source is as it was,
\* each request's source extension encodes the chain resolved for its bidder,
\* and a request for which no chain resolves has the inbound source.
C9_SourceNotShared ==
    (pc \in {"loop", "done"} /\ errs = "none") =>
        /\ source = source0
        /\ \A br \in Requests :
              IF Resolves(br.BidderName)
              THEN SourceSeen(br).ext =
                       SourceExt(SelectedSChain(br.BidderName, sChainsByBidder))
              ELSE SourceSeen(br) = source0

(***************************************************************************)
(* C4, C8, C10: user identity.  In the loop the variable user is the       *)
(* shared template, the inbound user after extractBuyerUIDs.               *)
(***************************************************************************)
InLoop == pc \in {"loop", "done"} /\ errs = "none"
HasExplicit(br) == br.BidderName \in DOMAIN explicitBuyerUIDs
HasSync(br) == br.BidderCoreName \in syncs

C8_OtherFieldsPreserved ==
    (pc \notin {"splitImps", "extractBuyerUIDs"} /\ errs = "none"
        /\ user0.present /\ user0.ext.kind = "object" /\ user0.ext.prebid) =>
        /\ ~user.ext.prebid
        /\ user.ext.buyeruids = EmptyMap
        /\ user.ext.consent = user0.ext.consent
        /\ user.ext.digitrust = user0.ext.digitrust
        /\ user.ext.other = user0.ext.other
        /\ (user.ext.kind = "nil") <=>
               (user0.ext.consent = "" /\ user0.ext.digitrust = ""
                    /\ user0.ext.other = "")
        /\ explicitBuyerUIDs = user0.ext.buyeruids

\* C10 (as stated): the cookie flag is "yes" exactly when the sync store has
\* an identifier for the bidder's canonical name, and "no" otherwise.
C10_AsStated ==
    \A br \in Requests :
        br.CookieFlag = IF HasSync(br) THEN CookieFlagYes ELSE CookieFlagNo

\* C10 (amended): the cookie flag is "no" exactly when the sync store has no
\* identifier for the bidder's canonical name and the request has no app
\* object, and "yes" otherwise (every request of an app is labelled "yes");
\* it does not depend on the identifier applied to the outgoing user.
C10_CookieFlag ==
    \A br \in Requests :
        br.CookieFlag = IF HasSync(br) \/ app THEN CookieFlagYes ELSE CookieFlagNo

C10_Witness ==
    /\ Finished
    /\ app
    /\ \E a, b \in Requests :
          /\ ~HasSync(a) /\ HasExplicit(a)
          /\ a.User.buyeruid = ExplicitUID(a.BidderName)
          /\ a.CookieFlag = CookieFlagYes
          /\ HasSync(b) /\ b.CookieFlag = CookieFlagYes

(***************************************************************************)
(* C5: the enabled flags.                                                  *)
(***************************************************************************)
Flag(bool) == IF bool THEN "true" ELSE "false"
Resolved(r) == enabled[r] \in {"true", "false"}
OverrideOrDefault(r) ==
    IF account[r][integrationType] # "unset" THEN account[r][integrationType]
    ELSE Flag(privacyConfig[r])

DirectiveOnlyUser == User(InboundUID, UserExt(TRUE, {"appnexus"}, "", "", ""))

InitAbort ==
    RunFrom({AllThree, OneBidder, Malformed},
            {NilUser, ExplicitUser, DirectiveOnlyUser, MalformedUser},
            {NilSource, InboundSource}, ReqExts, {FALSE, TRUE}, {AliasMap},
            {{}}, {FALSE})

SpecAbort == InitAbort /\ [][Next]_vars

Aborted == pc = "done" /\ errs # "none"

\* C11: when getAuctionBidderRequests aborts with an error it returns no
\* request and leaves the inbound request as it was: its user object, user
\* extension included, and its source are those of the call (no step assigns
\* the impressions, which are copied before they are changed).
C11_AbortLeavesRequest ==
    Aborted =>
        /\ bidderRequests = <<>>
        /\ user = user0
        /\ source = source0

====
